---- MODULE Spec2Model ----
(***************************************************************************)
(* Model of the semantic retrieval engine of mcp-rag-agent:                *)
(*   EmbeddingGenerator (embeddings/embedding_generator.py),               *)
(*   MongoDBClient      (mongodb/client.py),                               *)
(*   SemanticSearch     (embeddings/semantic_search.py),                   *)
(*   search_documents   (mcp_server/tools.py).                             *)
(* The remote embedding service and the backing store are the environment: *)
(* every remote request may fail; the embedding service answers with       *)
(* vectors of the dimensionality the request asks for, may return its      *)
(* items in any order, and may return a number of items different from the *)
(* number of inputs; the backing engine builds and refreshes the vector    *)
(* index on its own schedule.                                              *)
(* Three specifications share the state: SpecGenerator (the generator      *)
(* under its callers), SpecIndexing (the indexing path) and SpecSearch     *)
(* (the search path).                                                      *)
(***************************************************************************)
EXTENDS Integers, Sequences, FiniteSets, TLC

VARIABLES
    dimensions,   \* EmbeddingGenerator._dimensions
    _client,      \* MongoDBClient._client
    _db,          \* MongoDBClient._db
    openConns,    \* underlying connections currently open for this client
    vectors,      \* the vector collection: sequence of stored records
    nextOid,      \* next ObjectId the store hands out
    index,        \* the vector index of the collection
    last,         \* the call the caller made and what it observed, until
                  \* the caller has taken the result
    documents_collection,  \* the collection the bulk indexing job fills with
                           \* one record per file
    job,          \* the bulk indexing job: its files, its position, its log
    tasks,        \* concurrent engine calls of one event loop, by task
    main,         \* the bulk indexing script's main(): its position and exit
    evaluation    \* AnswerGenerator.generate_all_answers: cases and answers

vars == <<dimensions, _client, _db, openConns, vectors, nextOid, index, last,
          documents_collection, job, tasks, main, evaluation>>

----------------------------------------------------------------------------
(* Bounds of the model *)

MaxDocs == 2         \* records the collection may hold
MaxBatch == 2        \* longest list given to generate_batch / index_documents
MaxFiles == 2        \* most files the bulk indexing job finds in its folder
MaxTasks == 2        \* concurrent engine calls
MaxCases == 2        \* most test cases the answer generator loads
ConfiguredDims == 2  \* the dimensions the generator is constructed with

(* Program constants *)

DefaultNumCandidates == 100   \* vector_search(num_candidates=100)
DefaultTopK == 3              \* search_documents(top_k=3)

----------------------------------------------------------------------------
(* Values *)

None == [some |-> FALSE]
Some(v) == [some |-> TRUE, v |-> v]

NoneText == "<None>"            \* Python None passed where a str is expected
Texts == {"A", "B"}             \* non-empty texts
AnyText == Texts \cup {"", NoneText}

Min(a, b) == IF a <= b THEN a ELSE b

\* ObjectId and its str() form are different values
ObjectId(n) == [kind |-> "oid", v |-> n]
StrId(n) == [kind |-> "str", v |-> n]
EmptyStr == [kind |-> "str", v |-> 0]
\* str(x) for an ObjectId or a str
Str(x) == IF x.kind = "oid" THEN StrId(x.v) ELSE x

\* Sequences over S without repetition, of length k
InjSeqs(S, k) == {s \in [1..k -> S] : \A i, j \in 1..k : s[i] = s[j] => i = j}

\* s without its k-th element
RemoveAt(s, k) == [i \in 1..(Len(s) - 1) |-> IF i < k THEN s[i] ELSE s[i + 1]]

\* s reordered by the permutation p of 1..Len(s)
Reorder(s, p) == [i \in 1..Len(s) |-> s[p[i]]]

Reorderings(s) == {Reorder(s, p) : p \in InjSeqs(1..Len(s), Len(s))}

----------------------------------------------------------------------------
(* The remote embedding service (environment of EmbeddingGenerator) *)

Code(text) == CASE text = "A" -> 1 [] text = "B" -> 2 [] OTHER -> 0

\* The embedding the service computes for a text, in d dimensions
Embed(text, d) == [i \in 1..d |-> IF i = Code(text) THEN 1 ELSE 0]

\* Faulty variant: the request asks for another dimensionality than the
\* configured one
CreateRequestOtherDims(input, dims) == [input |-> input, dimensions |-> dims + 1]

\* The request of embeddings.create(model=..., input=..., dimensions=self._dimensions)
CreateRequest(input, dims) == [input |-> input, dimensions |-> dims]

\* The items of a well-formed response, in request order; index is 0-based
Items(req) ==
    [i \in 1..Len(req.input) |->
        [index |-> i - 1, embedding |-> Embed(req.input[i], req.dimensions)]]

\* Well-formed responses: one item per input, in any order
WellFormed(req) == Reorderings(Items(req))

\* Malformed responses: one item missing, or one item sent twice
Malformed(req) ==
    LET items == Items(req) IN
    UNION { Reorderings(RemoveAt(items, k)) \cup Reorderings(Append(items, items[k]))
            : k \in 1..Len(items) }

\* A null input is no valid request body: the service rejects it
ValidInput(req) == \A i \in 1..Len(req.input) : req.input[i] # NoneText

\* Every reply the service can give to a request: a failure, or response data
Replies(req) ==
    {[ok |-> FALSE, data |-> <<>>]}
        \cup IF ValidInput(req)
             THEN {[ok |-> TRUE, data |-> d] : d \in WellFormed(req) \cup Malformed(req)}
             ELSE {}

----------------------------------------------------------------------------
(* EmbeddingGenerator *)

\* Inserts item into the sequence s, sorted by index, after every item whose
\* index is not larger (sorted() is stable)
RECURSIVE InsertByIndex(_, _)
InsertByIndex(s, item) ==
    IF s = <<>> THEN <<item>>
    ELSE IF s[Len(s)].index <= item.index THEN Append(s, item)
    ELSE Append(InsertByIndex(SubSeq(s, 1, Len(s) - 1), item), s[Len(s)])

RECURSIVE SortedFrom(_, _)
SortedFrom(acc, rest) ==
    IF rest = <<>> THEN acc
    ELSE SortedFrom(InsertByIndex(acc, rest[1]), Tail(rest))

\* Faulty variant: the response data is used in arrival order
ArrivalOrder(data) == data

\* sorted(response.data, key=lambda x: x.index)
SortByIndex(data) == SortedFrom(<<>>, data)

\* Faulty variant: no early return for an empty list
NeverShortCircuit(texts) == FALSE

\* if not texts: return []
BatchShortCircuit(texts) == texts = <<>>

\* What a call observes: it returned a value or raised, and the remote
\* requests it made
Returned(value, embedCalls) ==
    [outcome |-> "returned", err |-> "none", value |-> value, embedCalls |-> embedCalls]
Raised(err, embedCalls) ==
    [outcome |-> "raised", err |-> err, value |-> <<>>, embedCalls |-> embedCalls]

\* Faulty variant: a failed request is swallowed and an empty vector returned
generateSwallow(text, reply) ==
    IF ~reply.ok \/ reply.data = <<>> THEN Returned(<<>>, 1)
    ELSE Returned(reply.data[1].embedding, 1)

\* generate(text) given the service's reply to its one request
generate(text, reply) ==
    IF ~reply.ok THEN Raised("remote", 1)
    ELSE IF reply.data = <<>> THEN Raised("IndexError", 1)
    ELSE Returned(reply.data[1].embedding, 1)

\* The request generate(text) sends
generateRequest(text, dims) == CreateRequest(<<text>>, dims)

\* Faulty variant: one request per text
generate_batchPerItem(texts, reply) ==
    IF texts = <<>> THEN Returned(<<>>, 0)
    ELSE IF ~reply.ok THEN Raised("remote", Len(texts))
    ELSE LET sorted_data == SortedFrom(<<>>, reply.data)
         IN Returned([i \in 1..Len(sorted_data) |-> sorted_data[i].embedding], Len(texts))

\* Faulty variant: a failed request is answered with an empty vector per text
generate_batchSwallow(texts, reply) ==
    IF texts = <<>> THEN Returned(<<>>, 0)
    ELSE IF ~reply.ok THEN Returned([i \in 1..Len(texts) |-> <<>>], 1)
    ELSE LET sorted_data == SortedFrom(<<>>, reply.data)
         IN Returned([i \in 1..Len(sorted_data) |-> sorted_data[i].embedding], 1)

\* generate_batch(texts) given the service's reply to its request (if any)
generate_batch(texts, reply) ==
    IF BatchShortCircuit(texts) THEN Returned(<<>>, 0)
    ELSE IF ~reply.ok THEN Raised("remote", 1)
    ELSE LET sorted_data == SortByIndex(reply.data)
         IN Returned([i \in 1..Len(sorted_data) |-> sorted_data[i].embedding], 1)

----------------------------------------------------------------------------
(* MongoDBClient: connection handles *)

\* The handles and connections of a client, as one value
Handles(c, d, n) == [_client |-> c, _db |-> d, openConns |-> n]

\* Faulty variant: connect() opens a connection whatever the handles are
connectAlways(h) ==
    Handles(Some("MongoClient"), Some("Database"), h.openConns + 1)

\* connect(): opens a connection only when there is no client handle
connect(h) ==
    IF h._client = None
    THEN Handles(Some("MongoClient"), Some("Database"), h.openConns + 1)
    ELSE h

\* disconnect(): closes the connection and clears both handles
disconnect(h) ==
    IF h._client # None
    THEN Handles(None, None, h.openConns - 1)
    ELSE h

\* What a call of connect() evaluates to: the method body has no return
\* statement
connect_value(h) == None

\* What a call of disconnect() evaluates to: no return statement either
disconnect_value(h) == None

\* bool(v) for the value of a call
Truthy(v) == v # None /\ v.v \notin {0, FALSE}

\* Faulty variant: the db property hands out the handle as it is
dbNoConnect(h) == h

\* The db property (used by get_collection): connects when there is no
\* database handle
db(h) == IF h._db = None THEN connect(h) ELSE h

----------------------------------------------------------------------------
(* MongoDBClient: documents.  A document is a mapping from field names to    *)
(* values; the store adds _id on insert.                                     *)

Get(doc, field, default) == IF field \in DOMAIN doc THEN doc[field] ELSE default

Pop(doc, field) == [f \in DOMAIN doc \ {field} |-> doc[f]]

Put(doc, field, value) == [f \in DOMAIN doc \cup {field} |-> IF f = field THEN value ELSE doc[f]]

\* Faulty variant: the store replaces a record of the same content instead
\* of adding one (an upsert keyed by content)
PersistUpsert(coll, oid, docs, k) ==
    LET same == {j \in 1..Len(coll) :
                    /\ k = 1
                    /\ "content" \in DOMAIN coll[j]
                    /\ "content" \in DOMAIN docs[1]
                    /\ coll[j].content = docs[1].content}
    IN IF same = {} THEN coll \o [i \in 1..k |-> Put(docs[i], "_id", ObjectId(oid + i - 1))]
       ELSE LET j == CHOOSE j \in same : TRUE
            IN [coll EXCEPT ![j] = Put(docs[1], "_id", coll[j]._id)]

\* The records the store holds after insert_one / insert_many persisted the
\* first k documents of docs
Persist(coll, oid, docs, k) ==
    coll \o [i \in 1..k |-> Put(docs[i], "_id", ObjectId(oid + i - 1))]

\* insert_document(collection, document): insert_one, then str(inserted_id).
\* ok says whether the store accepted the request.
insert_document(coll, oid, document, ok) ==
    IF ok
    THEN [outcome |-> "returned", err |-> "none", vectors |-> Persist(coll, oid, <<document>>, 1),
          nextOid |-> oid + 1, ids |-> <<Str(ObjectId(oid))>>]
    ELSE [outcome |-> "raised", err |-> "store", vectors |-> coll, nextOid |-> oid, ids |-> <<>>]

\* insert_documents(collection, documents): insert_many, then str of every
\* inserted id.  The driver rejects an empty list; a failing ordered bulk
\* write leaves the first k < N documents persisted.
insert_documents(coll, oid, documents, ok, k) ==
    IF documents = <<>>
    THEN [outcome |-> "raised", err |-> "InvalidOperation", vectors |-> coll,
          nextOid |-> oid, ids |-> <<>>]
    ELSE IF ok
    THEN [outcome |-> "returned", err |-> "none",
          vectors |-> Persist(coll, oid, documents, Len(documents)),
          nextOid |-> oid + Len(documents),
          ids |-> [i \in 1..Len(documents) |-> Str(ObjectId(oid + i - 1))]]
    ELSE [outcome |-> "raised", err |-> "store", vectors |-> Persist(coll, oid, documents, k),
          nextOid |-> oid + k, ids |-> <<>>]

\* Faulty variant: the bulk delete removes nothing
delete_documentsNothing(coll, ok) ==
    IF ok THEN [outcome |-> "returned", err |-> "none", vectors |-> coll]
    ELSE [outcome |-> "raised", err |-> "store", vectors |-> coll]

\* delete_documents(collection, {}): delete_many with the empty filter
\* removes every record
delete_documents(coll, ok) ==
    IF ok THEN [outcome |-> "returned", err |-> "none", vectors |-> <<>>]
    ELSE [outcome |-> "raised", err |-> "store", vectors |-> coll]

\* How many documents a failing ordered insert_many may have persisted
FailPoints(documents, ok) ==
    IF ok \/ documents = <<>> THEN {0} ELSE 0..(Len(documents) - 1)

----------------------------------------------------------------------------
(* The vector index of the backing engine ($vectorSearch) *)

NoIndex == [status |-> "none", dims |-> 0, holds |-> {}]

\* The records a vector index of the given dimensionality can hold: those
\* with a vector of that length in the vector field
Indexable(coll, dims) ==
    {i \in 1..Len(coll) : "embedding" \in DOMAIN coll[i] /\ Len(coll[i].embedding) = dims}

RECURSIVE Dot(_, _)
Dot(a, b) == IF a = <<>> THEN 0 ELSE a[1] * b[1] + Dot(Tail(a), Tail(b))

\* if filter_query: pipeline[0]["$vectorSearch"]["filter"] = filter_query
\* (a filter is the metadata value a record must carry; an empty one is falsy)
FilterStage(filter_query) ==
    IF filter_query # None /\ filter_query.v # "{}" THEN filter_query ELSE None

Satisfies(rec, filter) ==
    filter = None \/ ("metadata" \in DOMAIN rec /\ rec.metadata = filter.v)

\* The positions of the records the index holds that pass the pre-filter
Matching(coll, idx, filter) ==
    {i \in idx.holds : Satisfies(coll[i], filter)}

\* Faulty variant: the engine returns the limit worst-scoring records
RankingsWorstFirst(coll, cand, query_vector, limit) ==
    LET k == Min(limit, Cardinality(cand))
        score(i) == Dot(query_vector, coll[i].embedding)
    IN {s \in InjSeqs(cand, k) :
            /\ \A i \in 1..(k - 1) : score(s[i]) <= score(s[i + 1])
            /\ \A j \in cand : (\A i \in 1..k : s[i] # j) =>
                                    \A i \in 1..k : score(s[i]) <= score(j)}

\* The rankings the engine may return: limit best-scoring records among the
\* matching ones, best first, ties in any order
Rankings(coll, cand, query_vector, limit) ==
    LET k == Min(limit, Cardinality(cand))
        score(i) == Dot(query_vector, coll[i].embedding)
    IN {s \in InjSeqs(cand, k) :
            /\ \A i \in 1..(k - 1) : score(s[i]) >= score(s[i + 1])
            /\ \A j \in cand : (\A i \in 1..k : s[i] # j) =>
                                    \A i \in 1..k : score(s[i]) >= score(j)}

\* Faulty variant: the filter is applied to the limit best-scoring records
\* of the whole index (a post-filter)
AggregatePostFilter(coll, idx, stage) ==
    IF stage.limit > stage.numCandidates
    THEN {[outcome |-> "raised", err |-> "engine", docs |-> <<>>]}
    ELSE IF idx.status # "ready"
    THEN {[outcome |-> "returned", err |-> "none", docs |-> <<>>]}
    ELSE IF Len(stage.queryVector) # idx.dims
    THEN {[outcome |-> "raised", err |-> "engine", docs |-> <<>>]}
    ELSE {[outcome |-> "returned", err |-> "none",
           docs |-> LET kept == SelectSeq(s, LAMBDA i : Satisfies(coll[i], stage.filter))
                    IN [i \in 1..Len(kept) |->
                          Put(coll[kept[i]], "score",
                              Dot(stage.queryVector, coll[kept[i]].embedding))]]
            : s \in Rankings(coll, idx.holds, stage.queryVector, stage.limit)}

\* collection.aggregate([{$vectorSearch: ...}, {$addFields: {score: ...}}]):
\* every result the engine may give.  It rejects a limit above numCandidates
\* and a query vector of another length than the index; an index that is
\* not queryable yields nothing.
Aggregate(coll, idx, stage) ==
    IF stage.limit > stage.numCandidates
    THEN {[outcome |-> "raised", err |-> "engine", docs |-> <<>>]}
    ELSE IF idx.status # "ready"
    THEN {[outcome |-> "returned", err |-> "none", docs |-> <<>>]}
    ELSE IF Len(stage.queryVector) # idx.dims
    THEN {[outcome |-> "raised", err |-> "engine", docs |-> <<>>]}
    ELSE {[outcome |-> "returned", err |-> "none",
           docs |-> [i \in 1..Len(s) |->
                       Put(coll[s[i]], "score", Dot(stage.queryVector, coll[s[i]].embedding))]]
            : s \in Rankings(coll, Matching(coll, idx, stage.filter),
                             stage.queryVector, stage.limit)}

\* num_candidates: int = 100 when the caller supplies none
NumCandidates(num_candidates) ==
    IF num_candidates = None THEN DefaultNumCandidates ELSE num_candidates.v

\* The $vectorSearch stage vector_search builds
VectorSearchStage(query_vector, limit, num_candidates, filter_query) ==
    [queryVector |-> query_vector, numCandidates |-> num_candidates, limit |-> limit,
     filter |-> FilterStage(filter_query)]

\* vector_search(...): every result it may give; ok says whether the store
\* was reachable
vector_search(coll, idx, query_vector, limit, num_candidates, filter_query, ok) ==
    IF ~ok THEN {[outcome |-> "raised", err |-> "store", docs |-> <<>>]}
    ELSE Aggregate(coll, idx,
                   VectorSearchStage(query_vector, limit, NumCandidates(num_candidates),
                                     filter_query))

\* Faulty variant: the call waits until the index is queryable
create_vector_search_indexBlocking(idx, dims, ok) ==
    IF ok /\ idx.status = "none"
    THEN [outcome |-> "returned", err |-> "none",
          index |-> [status |-> "ready", dims |-> dims, holds |-> {}]]
    ELSE [outcome |-> "raised", err |-> "store", index |-> idx]

\* create_vector_search_index: the engine starts building; a second index on
\* the collection is rejected by the engine
create_vector_search_index(idx, dims, ok) ==
    IF ok /\ idx.status = "none"
    THEN [outcome |-> "returned", err |-> "none",
          index |-> [status |-> "building", dims |-> dims, holds |-> {}]]
    ELSE [outcome |-> "raised", err |-> "store", index |-> idx]

----------------------------------------------------------------------------
(* SemanticSearch *)

NoneMeta == "<None>"
EmptyMeta == "{}"
Metas == {NoneMeta, "m1"}

\* metadata or {}
MetaOrEmpty(metadata) == IF metadata \in {NoneMeta, EmptyMeta} THEN EmptyMeta ELSE metadata

\* The document index_document builds
VectorDocument(content, embedding, metadata) ==
    [content |-> content, embedding |-> embedding, metadata |-> metadata]

\* zip(documents, embeddings): pairs up to the shorter of the two.  The
\* documents index_documents builds from them.
DocsWithEmbeddings(documents, embeddings) ==
    [i \in 1..Min(Len(documents), Len(embeddings)) |->
        VectorDocument(Get(documents[i], "content", ""), embeddings[i],
                       Get(documents[i], "metadata", EmptyMeta))]

\* contents = [doc.get("content", "") for doc in documents]
Contents(documents) == [i \in 1..Len(documents) |-> Get(documents[i], "content", "")]

\* Faulty variant: the identifier is left as the store returned it
FormatResultRawId(result) == Pop(result, "embedding")

\* Faulty variant: the vector field is left in the result
KeepEmbedding(result) == Put(result, "_id", Str(Get(result, "_id", EmptyStr)))

\* result.pop(vector_field, None); result["_id"] = str(result.get("_id", ""))
FormatResult(result) ==
    Put(Pop(result, "embedding"), "_id", Str(Get(result, "_id", EmptyStr)))

\* dims = dimensions or self._embedding_generator.dimensions
SetupDims(dims_arg, generator_dims) ==
    IF dims_arg # None /\ dims_arg.v # 0 THEN dims_arg.v ELSE generator_dims

----------------------------------------------------------------------------
(* The bulk indexing job (index_documents_from_folder) *)

\* A file of the folder: its path, whether it can be read, and its text
\* after strip()
File(path, readable, content) == [path |-> path, readable |-> readable, content |-> content]

\* What a file may be: unreadable, empty, or holding a text
FileKinds ==
    {[readable |-> FALSE, content |-> ""]}
        \cup {[readable |-> TRUE, content |-> c] : c \in Texts \cup {""}}

\* text_files = list(folder.rglob("*.txt")): files of distinct paths
FileLists ==
    UNION {{[i \in 1..n |-> File(i, k[i].readable, k[i].content)] : k \in [1..n -> FileKinds]}
           : n \in 0..MaxFiles}

\* document_metadata (the fields that identify the file and carry its text)
DocumentMetadata(file) ==
    [name |-> file.path, relative_path |-> file.path, content |-> file.content]

\* Faulty variant: the vector record does not refer to the document record
VectorMetadataNoRef(doc_id, file) ==
    [document_id |-> EmptyStr, document_name |-> file.path, relative_path |-> file.path]

\* vector_metadata
VectorMetadata(doc_id, file) ==
    [document_id |-> doc_id, document_name |-> file.path, relative_path |-> file.path]

\* Faulty variant: no file counts as empty
NeverEmpty(content) == FALSE

\* if not content: print a warning; continue
EmptyContent(content) == content = ""

\* embedded: the files for whose text an embedding was requested
NoJob ==
    [pc |-> "idle", files |-> <<>>, i |-> 0, doc_id |-> EmptyStr, doc_ids |-> <<>>,
     outcomes |-> <<>>, indexed_count |-> 0, crashed |-> FALSE, embedded |-> {}]

\* The loop goes on with the file after the current one, having logged what
\* became of the current one; after the last file the function returns
NextFile(j, status) ==
    LET n == [j EXCEPT !.outcomes = Append(@, status),
                       !.doc_ids = Append(@, j.doc_id),
                       !.doc_id = EmptyStr,
                       !.i = @ + 1]
    IN [n EXCEPT !.pc = IF n.i > Len(n.files) THEN "done" ELSE "read"]

\* Faulty variant: the exception leaves the loop and the function
except_Abort(j, docs, status) ==
    [job |-> [j EXCEPT !.outcomes = Append(@, status), !.doc_ids = Append(@, j.doc_id),
                       !.pc = "raised"],
     documents |-> docs]

\* Faulty variant: the handler deletes the document record of the file
except_Rollback(j, docs, status) ==
    [job |-> NextFile(j, status),
     documents |-> SelectSeq(docs, LAMBDA d : Str(d._id) # j.doc_id)]

\* except Exception as e: print, traceback.print_exc(): the loop goes on
\* and the store is left as it is
except_Exception(j, docs, status) ==
    [job |-> NextFile(j, status), documents |-> docs]

----------------------------------------------------------------------------
(* Concurrent engine calls: tasks of one event loop.  A task runs until it  *)
(* awaits the embedding service; content, metadata and embedding are local  *)
(* variables of the call.                                                   *)

\* No response (no request was made, or none has arrived)
NoReply == [ok |-> FALSE, data |-> <<>>]

TaskIds == 1..MaxTasks

NoTask ==
    [pc |-> "none", op |-> "none", content |-> "", meta |-> NoneMeta, reply |-> NoReply,
     embedding |-> <<>>, outcome |-> "none", id |-> EmptyStr]

NoTasks == [t \in TaskIds |-> NoTask]

\* Faulty variant: the response is kept in a slot all tasks share; a task
\* that resumes reads the oldest response not yet consumed
SharedReply(ts, t) ==
    LET c == {u \in DOMAIN ts : ts[u].pc = "replied"}
    IN ts[CHOOSE u \in c : \A w \in c : u <= w].reply

\* response = await self._client.embeddings.create(...): the task resumes
\* with the response to its own request
AwaitedReply(ts, t) == ts[t].reply

----------------------------------------------------------------------------
(* The bulk indexing script's main() and the answer generator: state before *)
(* they run                                                                  *)

NoMain ==
    [pc |-> "idle", clear_existing |-> FALSE, connect_called |-> FALSE,
     disconnect_called |-> FALSE, failed |-> FALSE, exit |-> "none"]

\* agent: what the agent did on each question asked so far
NoEvaluation == [pc |-> "idle", cases |-> <<>>, answers |-> <<>>, agent |-> <<>>]

----------------------------------------------------------------------------
(* State after construction *)

NoCall ==
    [op |-> "none", outcome |-> "returned", err |-> "none",
     text |-> "", meta |-> NoneMeta, texts |-> <<>>, docs |-> <<>>,
     reply |-> NoReply, vecs |-> <<>>, ids |-> <<>>, hits |-> <<>>,
     limit |-> 0, filter |-> None, numCandidates |-> 0,
     active |-> FALSE, matching |-> 0, dimsArg |-> None, dims |-> 0,
     embedCalls |-> 0, storeCalls |-> 0, sizeBefore |-> 0, connsBefore |-> 0,
     storeOk |-> TRUE, result |-> None]

Init ==
    /\ dimensions = ConfiguredDims
    /\ _client = None
    /\ _db = None
    /\ openConns = 0
    /\ vectors = <<>>
    /\ nextOid = 1
    /\ index = NoIndex
    /\ last = NoCall
    /\ documents_collection = <<>>
    /\ job = NoJob
    /\ tasks = NoTasks
    /\ main = NoMain
    /\ evaluation = NoEvaluation

handles == Handles(_client, _db, openConns)

\* The caller makes one call at a time
Idle == last.op = "none"

\* The caller takes the result of its call
TakeResult ==
    /\ ~Idle
    /\ last' = NoCall
    /\ UNCHANGED <<dimensions, tasks, main, evaluation, documents_collection, job,
                   _client, _db, openConns, vectors, nextOid, index>>

\* The handles become h
SetHandles(h) ==
    /\ _client' = h._client
    /\ _db' = h._db
    /\ openConns' = h.openConns

----------------------------------------------------------------------------
(* Calls to the EmbeddingGenerator *)

\* A caller awaits generate(text)
Generate ==
    /\ Idle
    /\ \E text \in AnyText :
      \E reply \in Replies(generateRequest(text, dimensions)) :
        LET r == generate(text, reply) IN
        /\ last' = [NoCall EXCEPT !.op = "generate", !.outcome = r.outcome,
                        !.err = r.err, !.text = text, !.reply = reply,
                        !.vecs = IF r.outcome = "returned" THEN <<r.value>> ELSE <<>>,
                        !.embedCalls = r.embedCalls,
                        !.sizeBefore = Len(vectors)]
        /\ UNCHANGED <<dimensions, tasks, main, evaluation, documents_collection, job,
                       _client, _db, openConns, vectors, nextOid, index>>

TextLists == UNION {[1..n -> Texts \cup {""}] : n \in 0..MaxBatch}

\* A caller awaits generate_batch(texts)
GenerateBatch ==
    /\ Idle
    /\ \E texts \in TextLists :
      \E reply \in Replies(CreateRequest(texts, dimensions)) :
        LET r == generate_batch(texts, reply) IN
        /\ last' = [NoCall EXCEPT !.op = "generate_batch", !.outcome = r.outcome,
                        !.err = r.err, !.texts = texts,
                        !.reply = IF r.embedCalls = 0 THEN NoReply ELSE reply,
                        !.vecs = r.value,
                        !.embedCalls = r.embedCalls,
                        !.sizeBefore = Len(vectors)]
        /\ UNCHANGED <<dimensions, tasks, main, evaluation, documents_collection, job,
                       _client, _db, openConns, vectors, nextOid, index>>

----------------------------------------------------------------------------
(* Calls to the MongoDBClient *)

Connect ==
    /\ Idle
    /\ SetHandles(connect(handles))
    /\ last' = [NoCall EXCEPT !.op = "connect", !.sizeBefore = Len(vectors),
                    !.connsBefore = openConns, !.result = connect_value(handles)]
    /\ UNCHANGED <<dimensions, tasks, main, evaluation, documents_collection, job,
                   vectors, nextOid, index>>

Disconnect ==
    /\ Idle
    /\ SetHandles(disconnect(handles))
    /\ last' = [NoCall EXCEPT !.op = "disconnect", !.sizeBefore = Len(vectors),
                    !.connsBefore = openConns, !.result = disconnect_value(handles)]
    /\ UNCHANGED <<dimensions, tasks, main, evaluation, documents_collection, job,
                   vectors, nextOid, index>>

\* Documents other writers put into the collection: without a vector, with a
\* vector only, with further fields
RawDocuments ==
    { [content |-> "A"],
      [content |-> "B", embedding |-> Embed("B", dimensions), metadata |-> "m1"],
      [embedding |-> Embed("A", dimensions), title |-> "t"] }

\* A caller calls insert_document(collection, document) itself
InsertDocument ==
    /\ Idle
    /\ Len(vectors) < MaxDocs
    /\ \E document \in RawDocuments, ok \in BOOLEAN :
        LET r == insert_document(vectors, nextOid, document, ok) IN
        /\ SetHandles(db(handles))
        /\ vectors' = r.vectors
        /\ nextOid' = r.nextOid
        /\ last' = [NoCall EXCEPT !.op = "insert_document", !.outcome = r.outcome,
                        !.err = r.err, !.ids = r.ids, !.storeCalls = 1,
                        !.storeOk = ok, !.sizeBefore = Len(vectors),
                        !.connsBefore = openConns]
        /\ UNCHANGED <<dimensions, tasks, main, evaluation, documents_collection, job,
                       index>>

----------------------------------------------------------------------------
(* Calls to SemanticSearch *)

\* A caller awaits index_document(content, metadata)
IndexDocument ==
    /\ Idle
    /\ Len(vectors) < MaxDocs
    /\ \E content \in Texts \cup {""}, metadata \in Metas, ok \in BOOLEAN :
       \E reply \in Replies(generateRequest(content, dimensions)) :
        LET g == generate(content, reply)
            document == VectorDocument(content, g.value, MetaOrEmpty(metadata))
            r == insert_document(vectors, nextOid, document, ok)
            call == [NoCall EXCEPT !.op = "index_document", !.text = content,
                        !.meta = metadata, !.reply = reply, !.embedCalls = g.embedCalls,
                        !.sizeBefore = Len(vectors), !.connsBefore = openConns]
        IN
        IF g.outcome = "raised"
        THEN /\ last' = [call EXCEPT !.outcome = "raised", !.err = g.err]
             /\ UNCHANGED <<dimensions, tasks, main, evaluation, documents_collection,
                            job, _client, _db, openConns, vectors, nextOid, index>>
        ELSE /\ SetHandles(db(handles))
             /\ vectors' = r.vectors
             /\ nextOid' = r.nextOid
             /\ last' = [call EXCEPT !.outcome = r.outcome, !.err = r.err,
                            !.vecs = <<g.value>>, !.ids = r.ids, !.storeCalls = 1,
                            !.storeOk = ok]
             /\ UNCHANGED <<dimensions, tasks, main, evaluation, documents_collection,
                            job, index>>

\* The dicts given to index_documents: content and metadata are optional keys
Docs ==
    { [content |-> "A"],
      [content |-> "B", metadata |-> "m1"],
      [metadata |-> "m1"] }

DocLists == UNION {[1..n -> Docs] : n \in 0..MaxBatch}

\* A caller awaits index_documents(documents)
IndexDocuments ==
    /\ Idle
    /\ \E documents \in {d \in DocLists : Len(vectors) + Len(d) <= MaxDocs}, ok \in BOOLEAN :
       \E reply \in Replies(CreateRequest(Contents(documents), dimensions)) :
        LET g == generate_batch(Contents(documents), reply)
            docs_with_embeddings == DocsWithEmbeddings(documents, g.value)
            call == [NoCall EXCEPT !.op = "index_documents", !.docs = documents,
                        !.texts = Contents(documents),
                        !.reply = IF g.embedCalls = 0 THEN NoReply ELSE reply,
                        !.embedCalls = g.embedCalls, !.sizeBefore = Len(vectors)]
        IN
        IF g.outcome = "raised"
        THEN /\ last' = [call EXCEPT !.outcome = "raised", !.err = g.err]
             /\ UNCHANGED <<dimensions, tasks, main, evaluation, documents_collection,
                            job, _client, _db, openConns, vectors, nextOid, index>>
        ELSE \E k \in FailPoints(docs_with_embeddings, ok) :
             LET r == insert_documents(vectors, nextOid, docs_with_embeddings, ok, k) IN
             /\ SetHandles(db(handles))
             /\ vectors' = r.vectors
             /\ nextOid' = r.nextOid
             /\ last' = [call EXCEPT !.outcome = r.outcome, !.err = r.err,
                            !.vecs = g.value, !.ids = r.ids, !.storeCalls = 1,
                            !.storeOk = ok]
             /\ UNCHANGED <<dimensions, tasks, main, evaluation, documents_collection,
                            job, index>>

Limits == {1, 50, DefaultNumCandidates, DefaultNumCandidates + 1}

Filters == {None, Some("m1")}

\* search(query, limit, filter_query) as called under the name op
SearchCall(op, query, limit, filter_query) ==
    \E ok \in BOOLEAN :
    \E reply \in Replies(generateRequest(query, dimensions)) :
        LET g == generate(query, reply)
            call == [NoCall EXCEPT !.op = op, !.text = query, !.limit = limit,
                        !.filter = filter_query, !.reply = reply,
                        !.embedCalls = g.embedCalls, !.sizeBefore = Len(vectors)]
        IN
        IF g.outcome = "raised"
        THEN /\ last' = [call EXCEPT !.outcome = "raised", !.err = g.err]
             /\ UNCHANGED <<dimensions, tasks, main, evaluation, documents_collection,
                            job, _client, _db, openConns, vectors, nextOid, index>>
        ELSE \E results \in vector_search(vectors, index, g.value, limit, None,
                                          filter_query, ok) :
             /\ SetHandles(db(handles))
             /\ last' = [call EXCEPT
                            !.outcome = results.outcome, !.err = results.err,
                            !.vecs = <<g.value>>,
                            !.hits = [i \in 1..Len(results.docs) |-> FormatResult(results.docs[i])],
                            !.numCandidates = NumCandidates(None),
                            !.active = (index.status = "ready"),
                            !.dims = index.dims,
                            !.matching = Cardinality(Matching(vectors, index,
                                                              FilterStage(filter_query))),
                            !.storeCalls = 1, !.storeOk = ok]
             /\ UNCHANGED <<dimensions, tasks, main, evaluation, documents_collection,
                            job, vectors, nextOid, index>>

\* A caller awaits search(query, limit, filter_query=...)
Search ==
    /\ Idle
    /\ \E query \in {"A", ""}, limit \in Limits, filter_query \in Filters :
        SearchCall("search", query, limit, filter_query)

TopKs == {1, DefaultTopK}

\* The agent tool search_documents(query, top_k): search(query, limit=top_k)
SearchDocuments ==
    /\ Idle
    /\ \E query \in {"A", ""}, top_k \in TopKs :
        SearchCall("search_documents", query, top_k, None)

DimsArgs == {None, Some(0), Some(dimensions + 1)}

\* A caller calls setup_index(dimensions=...)
SetupIndex ==
    /\ Idle
    /\ \E dims_arg \in DimsArgs, ok \in BOOLEAN :
        LET dims == SetupDims(dims_arg, dimensions)
            r == create_vector_search_index(index, dims, ok)
        IN
        /\ SetHandles(db(handles))
        /\ index' = r.index
        /\ last' = [NoCall EXCEPT !.op = "setup_index", !.outcome = r.outcome,
                        !.err = r.err, !.dimsArg = dims_arg, !.dims = dims,
                        !.storeCalls = 1, !.storeOk = ok, !.sizeBefore = Len(vectors)]
        /\ UNCHANGED <<dimensions, tasks, main, evaluation, documents_collection, job,
                       vectors, nextOid>>

----------------------------------------------------------------------------
(* The bulk indexing job *)

Running == ~job.crashed /\ job.pc \in {"read", "insert_document", "index_document"}

\* index_documents_from_folder is called on a folder: without .txt files it
\* returns at once
JobStart ==
    /\ job.pc = "idle"
    /\ \E text_files \in FileLists :
        job' = [NoJob EXCEPT !.files = text_files, !.i = 1,
                             !.pc = IF text_files = <<>> THEN "done" ELSE "read"]
    /\ UNCHANGED <<dimensions, tasks, main, evaluation, _client, _db, openConns, vectors,
                   nextOid, index, last, documents_collection>>

\* with open(file_path) ...: content = f.read().strip(); an empty file is
\* skipped
JobReadFile ==
    /\ Running
    /\ job.pc = "read"
    /\ LET file == job.files[job.i] IN
       IF ~file.readable
       THEN job' = except_Exception(job, documents_collection, "read_failed").job
       ELSE IF EmptyContent(file.content)
       THEN job' = NextFile(job, "skipped")
       ELSE job' = [job EXCEPT !.pc = "insert_document"]
    /\ UNCHANGED <<dimensions, tasks, main, evaluation, _client, _db, openConns, vectors,
                   nextOid, index, last, documents_collection>>

\* doc_id = mongo_client.insert_document(documents_collection, document_metadata)
JobInsertDocument ==
    /\ Running
    /\ job.pc = "insert_document"
    /\ \E ok \in BOOLEAN :
        LET r == insert_document(documents_collection, nextOid,
                                 DocumentMetadata(job.files[job.i]), ok)
            e == except_Exception(job, r.vectors, "document_failed")
        IN
        /\ SetHandles(db(handles))
        /\ nextOid' = r.nextOid
        /\ IF r.outcome = "raised"
           THEN job' = e.job /\ documents_collection' = e.documents
           ELSE /\ job' = [job EXCEPT !.doc_id = r.ids[1], !.pc = "index_document"]
                /\ documents_collection' = r.vectors
    /\ UNCHANGED <<dimensions, tasks, main, evaluation, vectors, index, last>>

\* vector_id = await semantic_search.index_document(content, vector_metadata);
\* indexed_count += 1.  vector_metadata is a non-empty dict, so
\* (metadata or {}) is vector_metadata itself.
JobIndexDocument ==
    /\ Running
    /\ job.pc = "index_document"
    /\ \E ok \in BOOLEAN :
       \E reply \in Replies(generateRequest(job.files[job.i].content, dimensions)) :
        LET file == job.files[job.i]
            g == generate(file.content, reply)
            document == VectorDocument(file.content, g.value,
                                       VectorMetadata(job.doc_id, file))
            r == insert_document(vectors, nextOid, document, ok)
            asked == [job EXCEPT !.embedded = @ \cup {job.i}]
        IN
        IF g.outcome = "raised"
        THEN LET e == except_Exception(asked, documents_collection, "embedding_failed") IN
             /\ job' = e.job
             /\ documents_collection' = e.documents
             /\ UNCHANGED <<dimensions, tasks, main, evaluation, _client, _db, openConns,
                            vectors, nextOid, index, last>>
        ELSE /\ SetHandles(db(handles))
             /\ vectors' = r.vectors
             /\ nextOid' = r.nextOid
             /\ IF r.outcome = "raised"
                THEN LET e == except_Exception(asked, documents_collection, "vector_failed") IN
                     job' = e.job /\ documents_collection' = e.documents
                ELSE /\ job' = NextFile([asked EXCEPT !.indexed_count = @ + 1], "indexed")
                     /\ documents_collection' = documents_collection
             /\ UNCHANGED <<dimensions, tasks, main, evaluation, index, last>>

\* The process dies while the job runs
JobCrash ==
    /\ Running
    /\ job' = [job EXCEPT !.crashed = TRUE]
    /\ UNCHANGED <<dimensions, tasks, main, evaluation, _client, _db, openConns, vectors,
                   nextOid, index, last, documents_collection>>

----------------------------------------------------------------------------
(* Concurrent engine calls *)

\* A task calls index_document(content, metadata) or search(query) and is
\* suspended awaiting the embedding service
TaskCall(t) ==
    /\ tasks[t].pc = "none"
    /\ \E op \in {"index_document", "search"}, content \in Texts, metadata \in Metas :
        /\ op = "search" => metadata = NoneMeta
        /\ tasks' = [tasks EXCEPT ![t] = [NoTask EXCEPT !.pc = "awaiting", !.op = op,
                                             !.content = content, !.meta = metadata]]
    /\ UNCHANGED <<dimensions, _client, _db, openConns, vectors, nextOid, index, last,
                   documents_collection, job, main, evaluation>>

\* The embedding service answers the request of a suspended task
ServiceAnswers(t) ==
    /\ tasks[t].pc = "awaiting"
    /\ \E reply \in Replies(generateRequest(tasks[t].content, dimensions)) :
        tasks' = [tasks EXCEPT ![t].pc = "replied", ![t].reply = reply]
    /\ UNCHANGED <<dimensions, _client, _db, openConns, vectors, nextOid, index, last,
                   documents_collection, job, main, evaluation>>

\* The task resumes and runs to the end of its call: the store calls are
\* synchronous, no other task runs in between
TaskResume(t) ==
    /\ tasks[t].pc = "replied"
    /\ LET task == tasks[t]
           g == generate(task.content, AwaitedReply(tasks, t))
           done == [task EXCEPT !.pc = "done"]
       IN
       IF g.outcome = "raised"
       THEN /\ tasks' = [tasks EXCEPT ![t] = [done EXCEPT !.outcome = "raised"]]
            /\ UNCHANGED <<_client, _db, openConns, vectors, nextOid>>
       ELSE IF task.op = "index_document"
       THEN \E ok \in BOOLEAN :
            LET document == VectorDocument(task.content, g.value, MetaOrEmpty(task.meta))
                r == insert_document(vectors, nextOid, document, ok)
            IN
            /\ SetHandles(db(handles))
            /\ vectors' = r.vectors
            /\ nextOid' = r.nextOid
            /\ tasks' = [tasks EXCEPT ![t] =
                            [done EXCEPT !.outcome = r.outcome, !.embedding = g.value,
                                         !.id = IF r.outcome = "returned" THEN r.ids[1]
                                                ELSE EmptyStr]]
       ELSE \E ok \in BOOLEAN :
            \E results \in vector_search(vectors, index, g.value, 1, None, None, ok) :
            /\ SetHandles(db(handles))
            /\ tasks' = [tasks EXCEPT ![t] =
                            [done EXCEPT !.outcome = results.outcome, !.embedding = g.value]]
            /\ UNCHANGED <<vectors, nextOid>>
    /\ UNCHANGED <<dimensions, index, last, documents_collection, job, main, evaluation>>

----------------------------------------------------------------------------
(* The bulk indexing script's main(clear_existing) *)

\* Records an earlier run left in a collection
LeftOver(n, oid) ==
    [i \in 1..n |-> [_id |-> ObjectId(oid + i - 1), content |-> "B", name |-> 0]]

\* The collections hold records of earlier runs when the script starts
EarlierRun ==
    /\ main.pc = "idle"
    /\ documents_collection = <<>>
    /\ vectors = <<>>
    /\ \E d, v \in 0..1 :
        /\ d + v >= 1
        /\ documents_collection' = LeftOver(d, nextOid)
        /\ vectors' = LeftOver(v, nextOid + d)
        /\ nextOid' = nextOid + d + v
    /\ UNCHANGED <<dimensions, _client, _db, openConns, index, last, job, tasks, main,
                   evaluation>>

\* asyncio.run(main(clear_existing=args.clear))
MainStart ==
    /\ main.pc = "idle"
    /\ \E clear_existing \in BOOLEAN :
        main' = [NoMain EXCEPT !.pc = "connect", !.clear_existing = clear_existing]
    /\ UNCHANGED <<dimensions, _client, _db, openConns, vectors, nextOid, index, last,
                   documents_collection, job, tasks, evaluation>>

\* mongo_client = MongoDBClient(...); mongo_client.connect()
MainConnect ==
    /\ main.pc = "connect"
    /\ SetHandles(connect(handles))
    /\ main' = [main EXCEPT !.pc = "generator", !.connect_called = TRUE]
    /\ UNCHANGED <<dimensions, vectors, nextOid, index, last, documents_collection, job,
                   tasks, evaluation>>

\* embedding_generator = EmbeddingGenerator(...): the constructor builds the
\* service client, which raises without credentials; the statement is not
\* inside the try
MainConstructGenerator ==
    /\ main.pc = "generator"
    /\ \E ok \in BOOLEAN :
        main' = IF ok THEN [main EXCEPT !.pc = "engine"]
                ELSE [main EXCEPT !.pc = "exited", !.exit = "raised"]
    /\ UNCHANGED <<dimensions, _client, _db, openConns, vectors, nextOid, index, last,
                   documents_collection, job, tasks, evaluation>>

\* semantic_search = SemanticSearch(...): assignments only; then try:
MainConstructEngine ==
    /\ main.pc = "engine"
    /\ main' = [main EXCEPT !.pc = "clear_documents"]
    /\ UNCHANGED <<dimensions, _client, _db, openConns, vectors, nextOid, index, last,
                   documents_collection, job, tasks, evaluation>>

\* What a failing step inside the try leads to: except Exception prints,
\* then finally
MainFailed(m) == [m EXCEPT !.pc = "finally", !.failed = TRUE]

\* if clear_existing: delete_documents(db_documents_collection, {})
MainClearDocuments ==
    /\ main.pc = "clear_documents"
    /\ IF ~main.clear_existing
       THEN /\ main' = [main EXCEPT !.pc = "collections"]
            /\ UNCHANGED <<_client, _db, openConns, documents_collection>>
       ELSE \E ok \in BOOLEAN :
            LET r == delete_documents(documents_collection, ok) IN
            /\ SetHandles(db(handles))
            /\ documents_collection' = r.vectors
            /\ main' = IF r.outcome = "returned" THEN [main EXCEPT !.pc = "clear_vectors"]
                       ELSE MainFailed(main)
    /\ UNCHANGED <<dimensions, vectors, nextOid, index, last, job, tasks, evaluation>>

\* delete_documents(db_vector_collection, {})
MainClearVectors ==
    /\ main.pc = "clear_vectors"
    /\ \E ok \in BOOLEAN :
        LET r == delete_documents(vectors, ok) IN
        /\ SetHandles(db(handles))
        /\ vectors' = r.vectors
        /\ main' = IF r.outcome = "returned" THEN [main EXCEPT !.pc = "collections"]
                   ELSE MainFailed(main)
    /\ UNCHANGED <<dimensions, nextOid, index, last, documents_collection, job, tasks,
                   evaluation>>

\* collection_exists / create_collection for both collections
MainEnsureCollections ==
    /\ main.pc = "collections"
    /\ \E ok \in BOOLEAN :
        main' = IF ok THEN [main EXCEPT !.pc = "setup_index"] ELSE MainFailed(main)
    /\ SetHandles(db(handles))
    /\ UNCHANGED <<dimensions, vectors, nextOid, index, last, documents_collection, job,
                   tasks, evaluation>>

\* try: semantic_search.setup_index(dimensions=config.embedding_dimension)
\* except Exception: print -- a failure is not passed on
MainSetupIndex ==
    /\ main.pc = "setup_index"
    /\ \E ok \in BOOLEAN :
        LET r == create_vector_search_index(index, SetupDims(Some(dimensions), dimensions),
                                            ok)
        IN index' = r.index
    /\ SetHandles(db(handles))
    /\ main' = [main EXCEPT !.pc = "index"]
    /\ UNCHANGED <<dimensions, vectors, nextOid, last, documents_collection, job, tasks,
                   evaluation>>

\* await index_documents_from_folder(...): the job runs
MainIndexing ==
    /\ main.pc = "index"
    /\ \/ JobStart
       \/ JobReadFile
       \/ JobInsertDocument
       \/ JobIndexDocument

\* index_documents_from_folder has returned
MainJobReturned ==
    /\ main.pc = "index"
    /\ job.pc = "done"
    /\ main' = [main EXCEPT !.pc = "finally"]
    /\ UNCHANGED <<dimensions, _client, _db, openConns, vectors, nextOid, index, last,
                   documents_collection, job, tasks, evaluation>>

\* The task of main is cancelled while the job awaits index_document:
\* CancelledError is no Exception, it passes both except clauses and
\* reaches the finally
MainCancel ==
    /\ main.pc = "index"
    /\ Running
    /\ job.pc = "index_document"
    /\ job' = [job EXCEPT !.pc = "cancelled"]
    /\ main' = [main EXCEPT !.pc = "finally", !.exit = "cancelled"]
    /\ UNCHANGED <<dimensions, _client, _db, openConns, vectors, nextOid, index, last,
                   documents_collection, tasks, evaluation>>

\* finally: mongo_client.disconnect()
MainFinally ==
    /\ main.pc = "finally"
    /\ SetHandles(disconnect(handles))
    /\ main' = [main EXCEPT !.pc = "exited", !.disconnect_called = TRUE,
                            !.exit = IF main.exit = "cancelled" THEN "cancelled"
                                     ELSE "returned"]
    /\ UNCHANGED <<dimensions, vectors, nextOid, index, last, documents_collection, job,
                   tasks, evaluation>>

----------------------------------------------------------------------------
(* The evaluation's answer generator *)

\* The rows of the test case sheet: a number and a question
Questions == {"Q1", "Q2"}
CaseLists ==
    UNION {{[i \in 1..n |-> [num |-> i, question |-> q[i]]] : q \in [1..n -> Questions]}
           : n \in 0..MaxCases}

\* What awaiting the agent within the timeout leads to: the agent returns
\* its state, whose messages are the question followed by what the agent
\* appended; the timeout expires; the agent raises
AgentOutcomes(question) ==
    {[kind |-> "completed", messages |-> <<question>> \o m] : m \in {<<"a">>, <<"t", "b">>, <<"">>}}
        \cup {[kind |-> "timeout", messages |-> <<>>]}
        \cup {[kind |-> "failed", messages |-> <<>>]}

\* Faulty variant: only the timeout is caught, a failure of the agent
\* leaves the function
generate_answer_for_questionTimeoutOnly(question, agent_outcome) ==
    IF agent_outcome.kind = "completed"
    THEN [outcome |-> "returned",
          value |-> [answer |-> Some(agent_outcome.messages[Len(agent_outcome.messages)]),
                     error |-> None]]
    ELSE IF agent_outcome.kind = "timeout"
    THEN [outcome |-> "returned",
          value |-> [answer |-> None, error |-> Some("Agent invocation timed out")]]
    ELSE [outcome |-> "raised", value |-> [answer |-> None, error |-> None]]

\* generate_answer_for_question(question) given what the agent did
generate_answer_for_question(question, agent_outcome) ==
    IF agent_outcome.kind = "completed"
    THEN [outcome |-> "returned",
          value |-> [answer |-> Some(agent_outcome.messages[Len(agent_outcome.messages)]),
                     error |-> None]]
    ELSE IF agent_outcome.kind = "timeout"
    THEN [outcome |-> "returned",
          value |-> [answer |-> None, error |-> Some("Agent invocation timed out")]]
    ELSE [outcome |-> "returned",
          value |-> [answer |-> None, error |-> Some("Agent invocation failed")]]

\* generate_all_answers: df = self.load_test_cases(); answers = []
EvalStart ==
    /\ evaluation.pc = "idle"
    /\ \E df \in CaseLists :
        evaluation' = [NoEvaluation EXCEPT !.cases = df,
                                          !.pc = IF df = <<>> THEN "done" ELSE "loop"]
    /\ UNCHANGED <<dimensions, _client, _db, openConns, vectors, nextOid, index, last,
                   documents_collection, job, tasks, main>>

\* One pass of the loop over the rows: await generate_answer_for_question,
\* append the row, save; after the last row the function returns
EvalGenerate ==
    /\ evaluation.pc = "loop"
    /\ LET row == evaluation.cases[Len(evaluation.answers) + 1] IN
       \E agent_outcome \in AgentOutcomes(row.question) :
        LET result == generate_answer_for_question(row.question, agent_outcome)
            answer_result == [num |-> row.num, question |-> row.question,
                              generated_answer |-> result.value.answer,
                              agent_error |-> result.value.error]
        IN
        evaluation' =
            IF result.outcome = "raised"
            THEN [evaluation EXCEPT !.pc = "raised", !.agent = Append(@, agent_outcome)]
            ELSE [evaluation EXCEPT
                    !.answers = Append(@, answer_result),
                    !.agent = Append(@, agent_outcome),
                    !.pc = IF Len(evaluation.answers) + 1 = Len(evaluation.cases)
                           THEN "done" ELSE "loop"]
    /\ UNCHANGED <<dimensions, _client, _db, openConns, vectors, nextOid, index, last,
                   documents_collection, job, tasks, main>>

----------------------------------------------------------------------------
(* The backing engine *)

\* The engine finishes building the index
EngineBuild ==
    /\ index.status = "building"
    /\ index' = [index EXCEPT !.status = "ready", !.holds = Indexable(vectors, index.dims)]
    /\ UNCHANGED <<dimensions, tasks, main, evaluation, documents_collection, job,
                   _client, _db, openConns, vectors, nextOid, last>>

\* The engine brings a queryable index up to date with the collection
EngineSync ==
    /\ index.status = "ready"
    /\ index.holds # Indexable(vectors, index.dims)
    /\ index' = [index EXCEPT !.holds = Indexable(vectors, index.dims)]
    /\ UNCHANGED <<dimensions, tasks, main, evaluation, documents_collection, job,
                   _client, _db, openConns, vectors, nextOid, last>>

----------------------------------------------------------------------------

\* The EmbeddingGenerator under its callers
NextGenerator ==
    \/ Generate
    \/ GenerateBatch
    \/ TakeResult

SpecGenerator == Init /\ [][NextGenerator]_vars

\* The indexing path of the engine over the store
NextIndexing ==
    \/ Connect
    \/ Disconnect
    \/ InsertDocument
    \/ IndexDocument
    \/ IndexDocuments
    \/ TakeResult

SpecIndexing == Init /\ [][NextIndexing]_vars

\* The search path of the engine over a collection other writers fill
NextSearch ==
    \/ InsertDocument
    \/ Search
    \/ SearchDocuments
    \/ SetupIndex
    \/ EngineBuild
    \/ EngineSync
    \/ TakeResult

SpecSearch == Init /\ [][NextSearch]_vars

\* The search path over an engine that finishes every build it started
SpecSearchLive == SpecSearch /\ WF_vars(EngineBuild)

\* The engine alone over its collection: indexing, index setup and search
NextEngine ==
    \/ IndexDocument
    \/ IndexDocuments
    \/ Search
    \/ SetupIndex
    \/ EngineBuild
    \/ EngineSync
    \/ TakeResult

SpecEngine == Init /\ [][NextEngine]_vars

\* Concurrent index_document and search calls on one collection
NextConcurrent ==
    \E t \in TaskIds :
        \/ TaskCall(t)
        \/ ServiceAnswers(t)
        \/ TaskResume(t)

SpecConcurrent == Init /\ [][NextConcurrent]_vars

\* One run of the bulk indexing job
NextBulkJob ==
    \/ JobStart
    \/ JobReadFile
    \/ JobInsertDocument
    \/ JobIndexDocument
    \/ JobCrash

SpecBulkJob == Init /\ [][NextBulkJob]_vars

\* The bulk indexing script from start to exit
NextMain ==
    \/ EarlierRun
    \/ MainStart
    \/ MainConnect
    \/ MainConstructGenerator
    \/ MainConstructEngine
    \/ MainClearDocuments
    \/ MainClearVectors
    \/ MainEnsureCollections
    \/ MainSetupIndex
    \/ MainIndexing
    \/ MainJobReturned
    \/ MainCancel
    \/ MainFinally

SpecMain == Init /\ [][NextMain]_vars

\* The answer generator's run over its test cases
NextAnswers ==
    \/ EvalStart
    \/ EvalGenerate

SpecAnswers == Init /\ [][NextAnswers]_vars

\* The run of a process that stays alive
SpecAnswersLive == SpecAnswers /\ WF_vars(EvalGenerate)

\* The job's steps, which a living process goes on taking
JobStep == JobReadFile \/ JobInsertDocument \/ JobIndexDocument

SpecBulkJobLive == SpecBulkJob /\ WF_vars(JobStep)

----------------------------------------------------------------------------
(* Properties *)

\* The reply carries exactly one item for each of n inputs, in some order
OneItemPerInput(reply, n) ==
    /\ reply.ok
    /\ Len(reply.data) = n
    /\ {reply.data[k].index : k \in 1..Len(reply.data)} = 0..(n - 1)

EngineSearches == {"search", "search_documents"}

\* The records the last call added to the collection
Added == [i \in 1..(Len(vectors) - last.sizeBefore) |-> vectors[last.sizeBefore + i]]

\* C1: whenever the service answers generate_batch(texts), texts non-empty,
\* with one item per input in any order, generate_batch returns as many
\* vectors as texts and the i-th is the embedding of the item the service
\* tagged with index i (0-based: i - 1), which is the embedding of texts[i].
C1_OrderPreserved ==
    (/\ last.op = "generate_batch"
     /\ last.texts # <<>>
     /\ OneItemPerInput(last.reply, Len(last.texts)))
    => /\ last.outcome = "returned"
       /\ Len(last.vecs) = Len(last.texts)
       /\ \A i \in 1..Len(last.texts) :
            /\ \A k \in 1..Len(last.reply.data) :
                 last.reply.data[k].index = i - 1 => last.vecs[i] = last.reply.data[k].embedding
            /\ last.vecs[i] = Embed(last.texts[i], dimensions)

\* C1 witness: two different texts, answered in reverse order
C1_Witness ==
    /\ last.op = "generate_batch"
    /\ last.outcome = "returned"
    /\ Len(last.texts) = 2
    /\ last.texts[1] # last.texts[2]
    /\ OneItemPerInput(last.reply, 2)
    /\ last.reply.data[1].index = 1

\* C2: index_documents of N >= 1 documents that returns gives N ids, the
\* collection has grown by N records, and the record under ids[i] holds
\* documents[i]'s content and metadata and the embedding of that content.
C2_OneToOne ==
    (/\ last.op = "index_documents"
     /\ last.outcome = "returned"
     /\ Len(last.docs) >= 1)
    => /\ Len(last.ids) = Len(last.docs)
       /\ Len(Added) = Len(last.docs)
       /\ \A i \in 1..Len(last.docs) :
            /\ Str(Added[i]._id) = last.ids[i]
            /\ Added[i].content = Get(last.docs[i], "content", "")
            /\ Added[i].metadata = Get(last.docs[i], "metadata", EmptyMeta)
            /\ Added[i].embedding = Embed(Get(last.docs[i], "content", ""), dimensions)

\* C3: index_document with empty content raises without any embedding
\* request and without any store call, and leaves the collection as it was.
C3_EmptyContentRejected ==
    (last.op = "index_document" /\ last.text = "")
    => /\ last.outcome = "raised"
       /\ last.embedCalls = 0
       /\ last.storeCalls = 0
       /\ Added = <<>>

\* C4: no mapping returned by search or by the tool search_documents has the
\* vector field.
C4_NoEmbeddingLeak ==
    last.op \in EngineSearches
    => \A i \in 1..Len(last.hits) : "embedding" \notin DOMAIN last.hits[i]

\* C4 witness: the tool returned two results of different shapes, both from
\* records that hold a vector
C4_Witness ==
    /\ last.op = "search_documents"
    /\ last.outcome = "returned"
    /\ Len(last.hits) = 2
    /\ DOMAIN last.hits[1] # DOMAIN last.hits[2]
    /\ \A i \in 1..2 : \E j \in 1..Len(vectors) :
            /\ Str(vectors[j]._id) = last.hits[i]._id
            /\ "embedding" \in DOMAIN vectors[j]

\* C5: a search with limit L that reaches an active index (of the
\* generator's dimensionality) holding M matching vectors returns exactly
\* min(L, M) results.
C5_UnderFill ==
    (/\ last.op \in EngineSearches
     /\ last.storeCalls = 1
     /\ last.err # "store"
     /\ last.active
     /\ last.dims = dimensions)
    => /\ last.outcome = "returned"
       /\ Len(last.hits) = Min(last.limit, last.matching)

\* C6: every vector lookup made by search carries numCandidates >= limit.
C6_CandidatesCoverLimit ==
    (last.op \in EngineSearches /\ last.storeCalls = 1)
    => last.numCandidates >= last.limit

\* C7: generate(text) raises when text is empty or None and when the remote
\* call fails; it returns no vector then.
C7_GenerateFails ==
    (/\ last.op = "generate"
     /\ (last.text = "" \/ last.text = NoneText \/ ~last.reply.ok))
    => last.outcome = "raised" /\ last.vecs = <<>>

\* C8: every vector generate / generate_batch returned (to a caller or to
\* index_document / index_documents) has the configured length, and so has
\* the embedding of every record index_document / index_documents persisted.
C8_Dimensionality ==
    /\ last.op \in {"generate", "generate_batch", "index_document", "index_documents"}
        => \A i \in 1..Len(last.vecs) : Len(last.vecs[i]) = dimensions
    /\ last.op \in {"index_document", "index_documents"}
        => \A i \in 1..Len(Added) : Len(Added[i].embedding) = dimensions

\* C8 witness: index_documents embedded two documents and persisted both
C8_Witness ==
    /\ last.op = "index_documents"
    /\ last.outcome = "returned"
    /\ Len(last.vecs) = 2
    /\ Len(Added) = 2

\* C9: generate_batch([]) returns the empty list and makes no request to
\* the embedding service.
C9_EmptyBatch ==
    (last.op = "generate_batch" /\ last.texts = <<>>)
    => /\ last.outcome = "returned"
       /\ last.vecs = <<>>
       /\ last.embedCalls = 0

\* C9 witness: generate_batch([]) was called
C9_Witness ==
    /\ last.op = "generate_batch"
    /\ last.texts = <<>>
    /\ last.outcome = "returned"

\* C10: when the service answers the batch of index_documents with a number
\* of vectors different from the number of documents, index_documents
\* raises and persists nothing (the store accepting what it is sent).
C10_MalformedRejected ==
    (/\ last.op = "index_documents"
     /\ last.err # "store"
     /\ last.reply.ok
     /\ Len(last.reply.data) # Len(last.docs))
    => /\ last.outcome = "raised"
       /\ Added = <<>>

\* C11: every index_document that returns adds exactly one record to the
\* collection, under an id no earlier record has, and leaves every earlier
\* record as it was -- also when an earlier call with the same content and
\* metadata has written a record: two such calls give two ids and two records.
C11_NotIdempotent ==
    [][(/\ last.op = "none"
        /\ last'.op = "index_document"
        /\ last'.outcome = "returned")
       => /\ Len(vectors') = Len(vectors) + 1
          /\ Len(last'.ids) = 1
          /\ Str(vectors'[Len(vectors')]._id) = last'.ids[1]
          /\ vectors'[Len(vectors')].content = last'.text
          /\ vectors'[Len(vectors')].metadata = MetaOrEmpty(last'.meta)
          /\ \A j \in 1..Len(vectors) :
                /\ vectors'[j] = vectors[j]
                /\ Str(vectors[j]._id) # last'.ids[1]]_vars

\* C11 witness: index_document("A") returned for the second time; the record
\* of the first call is there with the same content, metadata and embedding
\* under another id
C11_Witness ==
    /\ last.op = "index_document"
    /\ last.outcome = "returned"
    /\ last.text = "A"
    /\ last.meta = NoneMeta
    /\ Len(Added) = 1
    /\ \E j \in 1..last.sizeBefore :
        /\ DOMAIN vectors[j] = DOMAIN Added[1]
        /\ Pop(vectors[j], "_id") = Pop(Added[1], "_id")
        /\ vectors[j]._id # Added[1]._id

\* C12: at most one connection is open per client and it is open exactly
\* when the handles are set; connect() leaves a connected client as it was
\* and opens nothing; disconnect() leaves no connection open and both
\* handles cleared, and leaves a disconnected client as it was.
C12_Idempotent ==
    /\ [](/\ openConns \in {0, 1}
          /\ (openConns = 1) = (_client # None)
          /\ (_client = None) = (_db = None)
          /\ last.op = "connect" => openConns = 1 /\ _client # None /\ _db # None
          /\ last.op = "disconnect" => openConns = 0 /\ _client = None /\ _db = None)
    /\ [][(/\ last.op = "none"
           /\ \/ last'.op = "connect" /\ _client # None
              \/ last'.op = "disconnect" /\ _client = None)
          => handles' = handles]_vars

\* C12 witness: connect() was called on a connected client
C12_Witness ==
    /\ last.op = "connect"
    /\ last.connsBefore = 1
    /\ openConns = 1

EngineOps == {"index_document", "index_documents", "search", "search_documents", "setup_index"}

\* The embedding provider raised in the last call: its request failed, or
\* the response to generate carried no item
ProviderRaised ==
    /\ last.embedCalls >= 1
    /\ \/ ~last.reply.ok
       \/ last.op \in EngineSearches \cup {"index_document"} /\ last.reply.data = <<>>

\* The store raised in the last call: it could not be reached, the driver
\* rejected an empty batch, or the engine rejected the lookup
StoreRaised ==
    /\ last.storeCalls >= 1
    /\ \/ ~last.storeOk
       \/ last.op = "index_documents" /\ last.docs = <<>>
       \/ last.op \in EngineSearches /\ last.limit > last.numCandidates

\* C13: whenever the embedding provider or the store raised during
\* index_document, index_documents, search or setup_index, the call raised:
\* it returned no id, no id list and no result list.
C13_ErrorsPropagate ==
    (last.op \in EngineOps /\ (ProviderRaised \/ StoreRaised))
    => /\ last.outcome = "raised"
       /\ last.ids = <<>>
       /\ last.hits = <<>>

\* C13 witness: the batch insert of index_documents failed after the store
\* had persisted the first of two records
C13_Witness ==
    /\ last.op = "index_documents"
    /\ Len(last.docs) = 2
    /\ last.reply.ok
    /\ ~last.storeOk
    /\ last.outcome = "raised"
    /\ Len(Added) = 1

\* C14: index_document, index_documents (whatever the number of documents)
\* and search each make at most one embedding request and at most one store
\* request, whether they return or raise.
C14_SingleRequests ==
    last.op \in {"index_document", "index_documents", "search", "search_documents"}
    => /\ last.embedCalls <= 1
       /\ last.storeCalls <= 1

\* C14 witness: index_documents of two documents returned after one
\* embedding request and one insert
C14_Witness ==
    /\ last.op = "index_documents"
    /\ Len(last.docs) = 2
    /\ last.outcome = "returned"
    /\ Len(Added) = 2
    /\ last.embedCalls = 1
    /\ last.storeCalls = 1

Failures == {"read_failed", "document_failed", "embedding_failed", "vector_failed"}

\* C16: a failure while processing a file (reading it, inserting its
\* document record, embedding it, inserting its vector record) never leaves
\* the job function: the loop goes on with the next file, or returns after
\* the last one; a job that returned has processed every file; and a job
\* whose process stays alive does process every later file and does return.
C16_ErrorIsolation ==
    /\ [](job.pc # "raised")
    /\ [](job.pc = "done" => Len(job.outcomes) = Len(job.files))
    /\ [][(/\ Len(job'.outcomes) = Len(job.outcomes) + 1
           /\ job'.outcomes[Len(job'.outcomes)] \in Failures)
          => /\ job'.i = job.i + 1
             /\ job'.pc = IF job.i < Len(job.files) THEN "read" ELSE "done"]_vars
    /\ \A k \in 1..MaxFiles :
          (/\ Len(job.outcomes) = k
           /\ job.outcomes[k] \in Failures
           /\ k < Len(job.files))
          ~> (Len(job.outcomes) > k \/ job.crashed)
    /\ (job.pc = "read") ~> (job.pc = "done" \/ job.crashed)

\* C16 witness: the first file could not be read, the second was indexed,
\* and the job returned
C16_Witness ==
    /\ job.pc = "done"
    /\ ~job.crashed
    /\ job.outcomes = <<"read_failed", "indexed">>
    /\ Len(vectors) = 1

\* A document record under the id is in the documents collection and no
\* vector record refers to it
Orphan(id) ==
    /\ \E d \in 1..Len(documents_collection) : Str(documents_collection[d]._id) = id
    /\ ~\E v \in 1..Len(vectors) : vectors[v].metadata.document_id = id

\* C17: the document record of a file whose embedding or vector insert
\* failed, or in whose indexing the process died, is in the documents
\* collection without a vector record, in every later state of the run; no
\* step of the job removes or changes a document record.
C17_OrphanStays ==
    /\ [](\A k \in 1..Len(job.outcomes) :
            job.outcomes[k] \in {"embedding_failed", "vector_failed"}
            => Orphan(job.doc_ids[k]))
    /\ [](job.crashed /\ job.pc = "index_document" => Orphan(job.doc_id))
    /\ [][/\ Len(documents_collection') >= Len(documents_collection)
          /\ \A d \in 1..Len(documents_collection) :
                documents_collection'[d] = documents_collection[d]]_vars

\* C17 witness: the embedding of the first file failed after its document
\* record was inserted; the job went on, indexed the second file and
\* returned, and the first document record is still without a vector
C17_Witness ==
    /\ job.pc = "done"
    /\ job.outcomes = <<"embedding_failed", "indexed">>
    /\ Orphan(job.doc_ids[1])
    /\ Len(documents_collection) = 2
    /\ Len(vectors) = 1

\* C18: every vector record refers in metadata.document_id to a document
\* record that is in the documents collection (so was inserted before it)
\* and is of the same file; no two vector records refer to the same
\* document record; and the vector record of a file the job indexed carries
\* the id the insert of that file's document record returned.
C18_BackReference ==
    /\ \A v \in 1..Len(vectors) :
        \E d \in 1..Len(documents_collection) :
            /\ Str(documents_collection[d]._id) = vectors[v].metadata.document_id
            /\ documents_collection[d].content = vectors[v].content
            /\ documents_collection[d].name = vectors[v].metadata.document_name
    /\ \A v, w \in 1..Len(vectors) :
        vectors[v].metadata.document_id = vectors[w].metadata.document_id => v = w
    /\ \A k \in 1..Len(job.outcomes) :
        job.outcomes[k] = "indexed"
        => \E v \in 1..Len(vectors) :
            /\ vectors[v].metadata.document_id = job.doc_ids[k]
            /\ vectors[v].metadata.document_name = job.files[k].path
            /\ vectors[v].content = job.files[k].content

\* C18 witness: two files of the same text were indexed in one run
C18_Witness ==
    /\ job.pc = "done"
    /\ job.outcomes = <<"indexed", "indexed">>
    /\ job.files[1].content = job.files[2].content
    /\ Len(vectors) = 2
    /\ vectors[1].metadata.document_id # vectors[2].metadata.document_id

\* C19: setup_index returns with the build of the index still pending (the
\* index holds nothing yet); a search that returns before the build has
\* finished returns nothing, whatever the collection holds; the engine
\* finishes every build it started; and a search that returns after that
\* returns records the index holds, min(limit, matching) of them.
C19_FireAndForget ==
    /\ [][(/\ last.op = "none"
           /\ last'.op = "setup_index"
           /\ last'.outcome = "returned")
          => /\ index'.status = "building"
             /\ index'.holds = {}]_vars
    /\ [](/\ last.op \in EngineSearches
          /\ last.outcome = "returned"
          => IF last.active
             THEN /\ Len(last.hits) = Min(last.limit, last.matching)
                  /\ \A i \in 1..Len(last.hits) :
                        \E j \in 1..Len(vectors) :
                            /\ Str(vectors[j]._id) = last.hits[i]._id
                            /\ "embedding" \in DOMAIN vectors[j]
             ELSE last.hits = <<>>)
    /\ (index.status = "building") ~> (index.status = "ready")

\* C19 witness: after setup_index, a search returned nothing although the
\* collection held a record with a vector: the build had not finished
C19_Witness ==
    /\ last.op = "search"
    /\ last.outcome = "returned"
    /\ ~last.active
    /\ last.dims = dimensions
    /\ last.hits = <<>>
    /\ \E j \in 1..last.sizeBefore : "embedding" \in DOMAIN vectors[j]

\* The step in which an unfiltered search(query, limit) has reached the
\* store and meets a queryable index of the generator's dimensionality
RoundTripSearch ==
    /\ last.op = "none"
    /\ last'.op = "search"
    /\ last'.filter = None
    /\ last'.limit >= 1
    /\ last'.storeCalls = 1
    /\ last'.storeOk
    /\ index.status = "ready"
    /\ index.dims = dimensions

\* The result list has an entry with the record's id in string form and
\* the record's content
Returns(hits, rec) ==
    \E i \in 1..Len(hits) :
        /\ hits[i]._id = Str(rec._id)
        /\ "content" \in DOMAIN hits[i]
        /\ hits[i].content = rec.content

\* The records the index holds, other than j, that score at least as high
\* against the query vector as record j
Rivals(j, query_vector) ==
    {k \in index.holds \ {j} :
        Dot(query_vector, vectors[k].embedding) >= Dot(query_vector, vectors[j].embedding)}

C21_ResultShape ==
    last.op \in EngineSearches
    => \A i \in 1..Len(last.hits) :
        /\ {"content", "metadata", "score", "_id"} \subseteq DOMAIN last.hits[i]
        /\ last.hits[i]._id.kind = "str"
        /\ \E j \in 1..Len(vectors) :
            /\ last.hits[i]._id = Str(vectors[j]._id)
            /\ last.hits[i].content = vectors[j].content
            /\ last.hits[i].metadata = vectors[j].metadata
            /\ last.hits[i].score = Dot(last.vecs[1], vectors[j].embedding)

\* C21 witness: a search returned two records of different metadata and
\* different scores
C21_Witness ==
    /\ last.op = "search"
    /\ last.outcome = "returned"
    /\ Len(last.hits) = 2
    /\ last.hits[1].metadata # last.hits[2].metadata
    /\ last.hits[1].score > last.hits[2].score

\* C22: setup_index asks for an index of the caller's dimensions whenever
\* the caller supplies a value, and of the generator's dimensions exactly
\* when the caller supplies none.
C22_CallerDimensions ==
    (last.op = "setup_index" /\ last.storeCalls = 1)
    => last.dims = IF last.dimsArg = None THEN dimensions ELSE last.dimsArg.v

\* The tasks whose index_document call returned
Indexed == {t \in TaskIds : /\ tasks[t].pc = "done"
                            /\ tasks[t].op = "index_document"
                            /\ tasks[t].outcome = "returned"}

\* C23: under every interleaving, a task that went through its await used
\* the embedding of its own content or query; the record of an
\* index_document call that returned holds that call's content, metadata
\* and embedding, under the id the call returned and under no other; and
\* the collection holds exactly one record per returned index_document call.
C23_TasksIndependent ==
    /\ \A t \in TaskIds :
        (tasks[t].pc = "done" /\ tasks[t].outcome = "returned")
        => tasks[t].embedding = Embed(tasks[t].content, dimensions)
    /\ \A t \in Indexed :
        /\ Cardinality({j \in 1..Len(vectors) : Str(vectors[j]._id) = tasks[t].id}) = 1
        /\ \A j \in 1..Len(vectors) :
            Str(vectors[j]._id) = tasks[t].id
            => /\ vectors[j].content = tasks[t].content
               /\ vectors[j].metadata = MetaOrEmpty(tasks[t].meta)
               /\ vectors[j].embedding = Embed(tasks[t].content, dimensions)
    /\ Len(vectors) = Cardinality(Indexed)

\* C23 witness: while the first task is suspended with the response to its
\* request not yet consumed, the second, called with another content, has
\* received its response and inserted its record
C23_Witness ==
    /\ tasks[1].pc = "replied"
    /\ tasks[1].op = "index_document"
    /\ tasks[1].reply.ok
    /\ 2 \in Indexed
    /\ tasks[2].content # tasks[1].content
    /\ Len(vectors) = 1

\* C24: whenever main has exited after calling connect(), it has called
\* disconnect() and no connection is left open.
C24_DisconnectOnEveryExit ==
    (main.pc = "exited" /\ main.connect_called)
    => /\ main.disconnect_called
       /\ openConns = 0

\* The files of the run that hold text
NonEmptyFiles == {k \in 1..Len(job.files) : job.files[k].readable /\ job.files[k].content # ""}

\* main returned, no step of it failed and the job processed every file
\* without a failure
FailureFree ==
    /\ main.pc = "exited"
    /\ main.exit = "returned"
    /\ ~main.failed
    /\ job.pc = "done"
    /\ \A k \in 1..Len(job.outcomes) : job.outcomes[k] \in {"indexed", "skipped"}

\* C26: records leave a collection only through the two bulk deletes of a
\* run with clear_existing, and only before the job has started; after a
\* failure-free run with clear_existing each collection holds exactly one
\* record per non-empty file, whatever it held before.
C26_ClearBeforeIndex ==
    /\ [](main.clear_existing /\ FailureFree
          => /\ Len(documents_collection) = Cardinality(NonEmptyFiles)
             /\ Len(vectors) = Cardinality(NonEmptyFiles))
    /\ [][(\/ Len(documents_collection') < Len(documents_collection)
           \/ Len(vectors') < Len(vectors))
          => /\ main.clear_existing
             /\ main.pc \in {"clear_documents", "clear_vectors"}
             /\ job = NoJob]_vars

\* C26 witness: both collections held a record of an earlier run; after a
\* failure-free run with clear_existing over two files, one of them empty,
\* each holds one record
C26_Witness ==
    /\ main.clear_existing
    /\ FailureFree
    /\ Len(job.files) = 2
    /\ Cardinality(NonEmptyFiles) = 1
    /\ nextOid = 5
    /\ Len(documents_collection) = 1
    /\ Len(vectors) = 1

\* C25: the value of connect() is truthy, and the value of a disconnect()
\* that follows a connect() (a connection was open when it was called) is
\* truthy.
C25_TruthyResults ==
    /\ last.op = "connect" => Truthy(last.result)
    /\ (last.op = "disconnect" /\ last.connsBefore = 1) => Truthy(last.result)

\* C27: when the embedding request of index_document or index_documents
\* failed, the call raised without any store request and the collection is
\* what it was before the call: no record of the call, no part of the batch.
C27_FailedEmbeddingLeavesStore ==
    (/\ last.op \in {"index_document", "index_documents"}
     /\ last.embedCalls = 1
     /\ ~last.reply.ok)
    => /\ last.outcome = "raised"
       /\ last.storeCalls = 0
       /\ last.ids = <<>>
       /\ Len(vectors) = last.sizeBefore
       /\ Added = <<>>

\* C27 witness: the embedding request of index_documents for two documents
\* failed and none of the two reached the collection
C27_Witness ==
    /\ last.op = "index_documents"
    /\ Len(last.docs) = 2
    /\ last.embedCalls = 1
    /\ ~last.reply.ok
    /\ last.outcome = "raised"
    /\ last.storeCalls = 0
    /\ vectors = <<>>

\* C28: the client handle is absent exactly when the database handle is
\* absent, in every state; and after any store operation, whether it
\* succeeded or failed, the client is connected with one open connection,
\* also when it was disconnected before the operation.
C28_HandlesTogether ==
    /\ (_client = None) = (_db = None)
    /\ last.storeCalls >= 1
       => /\ _client # None
          /\ _db # None
          /\ openConns = 1

\* C28 witness: index_document was called on a disconnected client whose
\* collection already held a record (the client had been connected and
\* disconnected before); the insert found the client connected
C28_Witness ==
    /\ last.op = "index_document"
    /\ last.connsBefore = 0
    /\ last.sizeBefore = 1
    /\ last.storeCalls = 1
    /\ last.outcome = "returned"
    /\ openConns = 1
    /\ _db # None

\* The readable files of the run that are empty after strip()
EmptyFiles == {k \in 1..Len(job.files) : job.files[k].readable /\ job.files[k].content = ""}

\* C29: for an empty file the job requests no embedding and writes neither
\* a document record nor a vector record, at any time of the run; once the
\* job is past the file it has logged it as skipped, and skipping takes the
\* loop to the next file (or to the return after the last one).
C29_EmptyFileSkipped ==
    /\ [](\A k \in EmptyFiles :
            /\ k \notin job.embedded
            /\ \A d \in 1..Len(documents_collection) :
                  documents_collection[d].name # job.files[k].path
            /\ \A v \in 1..Len(vectors) :
                  vectors[v].metadata.document_name # job.files[k].path
            /\ k <= Len(job.outcomes) => job.outcomes[k] = "skipped")
    /\ [][(job.pc = "read" /\ job.i \in EmptyFiles /\ job' # job /\ ~job'.crashed)
          => /\ job'.i = job.i + 1
             /\ job'.pc = IF job.i < Len(job.files) THEN "read" ELSE "done"
             /\ UNCHANGED <<vectors, documents_collection, nextOid>>]_vars

\* C29 witness: the first file was empty and skipped, the second was
\* indexed: one document record, one vector record, one embedding request
C29_Witness ==
    /\ job.pc = "done"
    /\ job.outcomes = <<"skipped", "indexed">>
    /\ EmptyFiles = {1}
    /\ job.embedded = {2}
    /\ Len(documents_collection) = 1
    /\ Len(vectors) = 1

\* C30: generate_all_answers never raises because of the agent; the rows it
\* has produced are the rows of the first test cases, in input order, one
\* each; a row whose agent completed carries the final message as answer
\* and no error, a row whose agent timed out or failed carries no answer
\* and a non-empty error; after a timeout or failure the loop goes on with
\* the next case; a run that returned has a row per case, and every run
\* that stays alive does return.
C30_AnswersNeverRaise ==
    /\ [](/\ evaluation.pc # "raised"
          /\ Len(evaluation.answers) <= Len(evaluation.cases)
          /\ Len(evaluation.agent) = Len(evaluation.answers)
          /\ evaluation.pc = "done" => Len(evaluation.answers) = Len(evaluation.cases)
          /\ \A k \in 1..Len(evaluation.answers) :
                LET row == evaluation.answers[k]
                    did == evaluation.agent[k]
                IN /\ row.num = evaluation.cases[k].num
                   /\ row.question = evaluation.cases[k].question
                   /\ did.kind = "completed"
                      => /\ row.generated_answer = Some(did.messages[Len(did.messages)])
                         /\ row.agent_error = None
                   /\ did.kind \in {"timeout", "failed"}
                      => /\ row.generated_answer = None
                         /\ row.agent_error # None
                         /\ row.agent_error.v # "")
    /\ [][(/\ Len(evaluation'.agent) = Len(evaluation.agent) + 1
           /\ evaluation'.agent[Len(evaluation'.agent)].kind \in {"timeout", "failed"})
          => /\ Len(evaluation'.answers) = Len(evaluation.answers) + 1
             /\ evaluation'.pc = IF Len(evaluation'.answers) < Len(evaluation.cases)
                                 THEN "loop" ELSE "done"]_vars
    /\ (evaluation.pc = "loop") ~> (evaluation.pc = "done")

\* C30 witness: the agent failed on the first of two questions and
\* completed on the second; the run returned with both rows
C30_Witness ==
    /\ evaluation.pc = "done"
    /\ Len(evaluation.cases) = 2
    /\ evaluation.agent[1].kind = "failed"
    /\ evaluation.agent[2].kind = "completed"
    /\ evaluation.answers[1].generated_answer = None
    /\ evaluation.answers[2].generated_answer = Some("b")
    /\ evaluation.answers[2].agent_error = None

====
